---- MODULE Spec2Model ----
(***************************************************************************)
(* pokemcp: the cache-augmented fetch layer.                               *)
(*   CacheLayer.get_or_fetch   src/src/pokemcp/api/cache.py                *)
(*   PokeAPIClient.get         src/src/pokemcp/api/client.py               *)
(*   list_items / list_moves / list_pokemon   src/src/pokemcp/tools/*.py   *)
(* Calls are coroutines of one event loop: a call runs atomically between  *)
(* two awaits that really suspend (the store's GET and SETEX, the HTTP     *)
(* request), and calls interleave at those points.                         *)
(***************************************************************************)
EXTENDS Integers, Sequences, FiniteSets, TLC

VARIABLES backend, store, local, calls, started, dual

vars == <<backend, store, local, calls, started, dual>>

(* ------------------------------ bounds --------------------------------- *)

MaxTtl == 2            \* largest ttl argument passed to get_or_fetch
MaxListCalls == 3      \* listing calls started in one run of SpecList
MaxToolCalls == 2      \* lookups by name started in one run of SpecTools

(* --------------------------- program constants ------------------------- *)

MaxAttempts == 3       \* stop_after_attempt(3)
PageCap == 100         \* min(limit, 100)

(* The calls that may be in flight together *)
Calls == {"c1", "c2"}
Keys == {"a", "b"}
Ttls == 1..MaxTtl

(* The CacheLayer instances: one per tool module, plus a stand-alone one    *)
(* driven directly with arbitrary keys and fetch functions.                *)
Instances == {"layer", "items", "moves", "pokemon", "types", "pokedex"}

(* ------------------------------ values --------------------------------- *)

(* A value is its Python type (shape), its content (body: "" is the empty   *)
(* string / mapping / list) and, as history, the key whose fetch made it.  *)
Shapes == {"str", "dict"}
Bodies == {"", "p"}

NoVal == [shape |-> "none", body |-> "", src |-> ""]

Value(shape, body, src) == [shape |-> shape, body |-> body, src |-> src]

(* redis-py encodes the value argument of a command: bytes pass, str is     *)
(* utf-8 encoded, any other type (dict, list) raises DataError.            *)
CanEncode(v) == v.shape \in {"str", "bytes"}

Encode(v) == [v EXCEPT !.shape = "bytes"]

(* `if cached:` -- Python truth of what GET returned: None and the empty    *)
(* bytes string are false.                                                 *)
CacheHit(cached) == cached # NoVal /\ cached.body # ""

(* --------------------------- the two backends -------------------------- *)

(* The external store keeps, per key, the encoded value and the seconds     *)
(* left to its expiry; the store drops an entry when none is left.  orig is *)
(* history: the object the writing call passed, which that call returned.  *)
RedisGet(st, key) == IF key \in DOMAIN st THEN st[key].val ELSE NoVal

(* SETNX in place of SETEX: an entry that is there stays, with its expiry *)
MutSetExKeep(st, key, ttl, v) ==
    [k \in DOMAIN st \cup {key} |->
        IF k \in DOMAIN st THEN st[k]
        ELSE [val |-> Encode(v), left |-> ttl, orig |-> v]]

(* A bug that stores every value under one fixed key *)
MutSetEx(st, key, ttl, v) ==
    [k \in DOMAIN st \cup {"a"} |->
        IF k = "a" THEN [val |-> Encode(v), left |-> ttl, orig |-> v] ELSE st[k]]

SetEx(st, key, ttl, v) ==
    [k \in DOMAIN st \cup {key} |->
        IF k = key THEN [val |-> Encode(v), left |-> ttl, orig |-> v] ELSE st[k]]

Expire(st) ==
    [k \in {x \in DOMAIN st : st[x].left > 1} |-> [st[k] EXCEPT !.left = @ - 1]]

(* A bug that tests the truth of self._local.get(key), as the external      *)
(* branch does with what GET returned                                      *)
MutLocalHas(d, key) == key \in DOMAIN d /\ d[key].body # ""

LocalHas(d, key) == key \in DOMAIN d

LocalSet(d, key, v) == [k \in DOMAIN d \cup {key} |-> IF k = key THEN v ELSE d[k]]

(* ------------------------------ the client ----------------------------- *)

FailKinds == {"transport", "status"}

(* tenacity: retry on any exception, stop once the attempt number is 3.     *)
RetryOn(kind) == kind \in FailKinds

(* An off-by-one in the attempt budget *)
MutStopAfterAttempt(n) == n > MaxAttempts

StopAfterAttempt(n) == n >= MaxAttempts

(* ------------------------------- a call -------------------------------- *)

(* pc: idle -> read -> request -> (write) -> done.  present/seen record what *)
(* the backing store held for the key when the call read it; fetches counts *)
(* invocations of the fetch function, requests the upstream GET attempts.   *)
(* ids are the identifier arguments of a tool, path2 the second request of  *)
(* a fetch that makes two, legs the requests its fetch has still to get     *)
(* answered; reads counts the reads of the backing store and first is the   *)
(* object the call that wrote the entry read had returned.                 *)
IdleCall ==
    [pc |-> "idle", inst |-> "layer", tool |-> "direct", limit |-> 0, offset |-> 0,
     ids |-> <<>>, key |-> "", path |-> "", path2 |-> "", ttl |-> 0,
     reads |-> 0, present |-> "unread", seen |-> NoVal, first |-> NoVal,
     fetches |-> 0, legs |-> 0, requests |-> 0,
     fetched |-> NoVal, raised |-> "none", ret |-> NoVal, err |-> "none",
     wrote |-> FALSE]

NewCall(inst, tool, limit, offset, key, path, ttl) ==
    [IdleCall EXCEPT !.pc = "read", !.inst = inst, !.tool = tool, !.limit = limit,
                     !.offset = offset, !.key = key, !.path = path, !.ttl = ttl]

(* --------------------------- paginated listings ------------------------ *)

ListTools == {"list_items", "list_moves", "list_pokemon"}

Limits == {20, 150}
Offsets == {0, 20}

ListInstance(tool) ==
    CASE tool = "list_items" -> "items"
      [] tool = "list_moves" -> "moves"
      [] tool = "list_pokemon" -> "pokemon"

ListPrefix(tool) ==
    CASE tool = "list_items" -> "items_list"
      [] tool = "list_moves" -> "moves_list"
      [] tool = "list_pokemon" -> "pokemon_list"

ListEndpoint(tool) ==
    CASE tool = "list_items" -> "/item"
      [] tool = "list_moves" -> "/move"
      [] tool = "list_pokemon" -> "/pokemon"

Digits == <<"0", "1", "2", "3", "4", "5", "6", "7", "8", "9">>

RECURSIVE FormatNat(_)
FormatNat(n) ==
    IF n < 10 THEN Digits[n + 1] ELSE FormatNat(n \div 10) \o Digits[(n % 10) + 1]

(* f"{n}" of an int *)
FormatInt(n) == IF n < 0 THEN "-" \o FormatNat(0 - n) ELSE FormatNat(n)

(* limit = min(limit, 100) *)
CapLimit(limit) == IF limit < PageCap THEN limit ELSE PageCap

(* A bug that leaves the offset out of the key *)
MutListKey(tool, limit, offset) == ListPrefix(tool) \o ":" \o FormatInt(limit)

(* key = f"items_list:{limit}:{offset}" *)
ListKey(tool, limit, offset) ==
    ListPrefix(tool) \o ":" \o FormatInt(limit) \o ":" \o FormatInt(offset)

(* f"/item?limit={limit}&offset={offset}" *)
ListPath(tool, limit, offset) ==
    ListEndpoint(tool) \o "?limit=" \o FormatInt(limit) \o "&offset=" \o FormatInt(offset)

(* return {"items": result, "limit": limit, "offset": offset} *)
ListPayload(call) == [items |-> call.ret, limit |-> call.limit, offset |-> call.offset]

(* ---------------------------- lookups by name -------------------------- *)

(* Callers that take an identifier and reshape what the upstream serves    *)
IdTools == {"get_pokemon", "get_item", "pokemon_resource", "generation_resource"}
Resources == {"pokemon_resource", "generation_resource"}
Tools == IdTools \cup {"get_dual_type_matchups"}

(* Identifiers as the caller passes them, one character per element *)
Ids == {<<"a">>, <<"A">>, <<"b">>, <<"a", "_", "a">>}

(* The arguments of a tool: two type names for the dual-type tool *)
ToolArgs(tool) ==
    IF tool = "get_dual_type_matchups"
    THEN {<<x, y>> : x \in Ids, y \in Ids}
    ELSE {<<x>> : x \in Ids}

LowerChar(ch) ==
    CASE ch = "A" -> "a"
      [] ch = "B" -> "b"
      [] OTHER -> ch

(* str.lower(), giving the text *)
RECURSIVE Lower(_)
Lower(id) == IF id = <<>> THEN "" ELSE LowerChar(Head(id)) \o Lower(Tail(id))

(* the identifier as passed *)
RECURSIVE Text(_)
Text(id) == IF id = <<>> THEN "" ELSE Head(id) \o Text(Tail(id))

(* the module-level cache = CacheLayer(settings.redis_url) of the caller *)
ToolInstance(tool) ==
    CASE tool = "get_pokemon" -> "pokemon"
      [] tool = "get_item" -> "items"
      [] tool \in Resources -> "pokedex"
      [] tool = "get_dual_type_matchups" -> "types"

ToolPrefix(tool) ==
    CASE tool = "get_pokemon" -> "pokemon:"
      [] tool = "get_item" -> "item:"
      [] tool = "pokemon_resource" -> "resource:pokemon:"
      [] tool = "generation_resource" -> "resource:generation:"
      [] tool = "get_dual_type_matchups" -> "dual_type:"

ToolEndpoint(tool) ==
    CASE tool \in {"get_pokemon", "pokemon_resource"} -> "/pokemon/"
      [] tool = "get_item" -> "/item/"
      [] tool = "generation_resource" -> "/generation/"
      [] tool = "get_dual_type_matchups" -> "/type/"

(* A key built from the identifier as passed, the path from its lower case *)
MutToolKey(tool, ids) ==
    IF tool = "get_dual_type_matchups"
    THEN ToolPrefix(tool) \o Text(ids[1]) \o "_" \o Text(ids[2])
    ELSE ToolPrefix(tool) \o Text(ids[1])

(* key = f"pokemon:{name_or_id.lower()}",                                   *)
(* key = f"dual_type:{type_one.lower()}_{type_two.lower()}"                 *)
ToolKey(tool, ids) ==
    IF tool = "get_dual_type_matchups"
    THEN ToolPrefix(tool) \o Lower(ids[1]) \o "_" \o Lower(ids[2])
    ELSE ToolPrefix(tool) \o Lower(ids[1])

(* f"/pokemon/{name_or_id.lower()}" *)
ToolPath(tool, id) == ToolEndpoint(tool) \o Lower(id)

(* json.dumps(obj): the text of a JSON object; bytes are not serializable *)
JsonDumps(v) ==
    IF v.shape = "bytes" THEN [shape |-> "TypeError", body |-> "", src |-> v.src]
    ELSE [v EXCEPT !.shape = "str", !.body = "json(" \o v.body \o ")"]

(* What the fetch closure of a tool returns for the upstream responses at  *)
(* its paths: the model's JSON text, the raw object, the serialized object *)
(* or the matchups computed from the two type responses.                   *)
ToolFetch(call) ==
    CASE call.tool = "get_pokemon" ->
            Value("str", "Pokemon(" \o call.path \o ")", call.key)
      [] call.tool = "get_item" -> Value("dict", call.path, call.key)
      [] call.tool \in Resources -> JsonDumps(Value("dict", call.path, call.key))
      [] call.tool = "get_dual_type_matchups" ->
            Value("dict", call.path \o "*" \o call.path2, call.key)

(* What the tool hands back for the result of get_or_fetch: a wrapper       *)
(* around it, or for a resource the text as-is, else its serialization.     *)
ToolReturn(tool, ids, result) ==
    CASE tool = "get_pokemon" -> [wrap |-> "pokemon", types |-> <<>>, val |-> result]
      [] tool = "get_item" -> [wrap |-> "item", types |-> <<>>, val |-> result]
      [] tool = "get_dual_type_matchups" ->
            [wrap |-> "matchups", types |-> <<Text(ids[1]), Text(ids[2])>>, val |-> result]
      [] tool \in Resources ->
            [wrap |-> "none", types |-> <<>>,
             val |-> IF result.shape = "str" THEN result ELSE JsonDumps(result)]

(* What a successful fetch can produce.  A listing closure turns the page   *)
(* the upstream serves at its path into a list; the upstream is immutable,  *)
(* so the page is identified by the path.  A fetch function handed straight *)
(* to the layer may produce any value.                                     *)
FetchResults(call) ==
    IF call.tool \in ListTools
    THEN {Value("list", call.path, call.key)}
    ELSE IF call.tool \in Tools
    THEN {ToolFetch(call)}
    ELSE {Value(sh, b, call.key) : sh \in Shapes, b \in Bodies}

(* ------------------------ dual-type matchups --------------------------- *)

(* ALL_TYPES, in its order; three of the eighteen names are modelled.       *)
ALL_TYPES == <<"normal", "fire", "water">>

TypeNames == {ALL_TYPES[i] : i \in DOMAIN ALL_TYPES}

(* damage_relations of one /type/{name} response: the names listed under    *)
(* double_damage_from, half_damage_from and no_damage_from.  The upstream   *)
(* lists a type under at most one of the three.                            *)
TypeData ==
    {[double_damage_from |-> d, half_damage_from |-> h, no_damage_from |-> n] :
        <<d, h, n>> \in {x \in (SUBSET TypeNames) \X (SUBSET TypeNames) \X (SUBSET TypeNames) :
                           /\ x[1] \cap x[2] = {} /\ x[1] \cap x[3] = {}
                           /\ x[2] \cap x[3] = {}}}

(* Multipliers are counted in quarters: 0.0 is 0, 0.25 is 1, 0.5 is 2,      *)
(* 1.0 is 4, 2.0 is 8 and 4.0 is 16; all are exact as Python floats.        *)
QuarterProduct(a, b) == (a * b) \div 4

(* A bug that swaps the two non-neutral multipliers *)
MutBuildMultiplierMap(type_data) ==
    [t \in TypeNames |->
        IF t \in type_data.no_damage_from THEN 0
        ELSE IF t \in type_data.half_damage_from THEN 8
        ELSE IF t \in type_data.double_damage_from THEN 2
        ELSE 4]

(* build_multiplier_map: every type starts at 1.0; the three loops then     *)
(* assign 2.0, 0.5 and 0.0 in this order, a later loop overriding.          *)
BuildMultiplierMap(type_data) ==
    [t \in TypeNames |->
        IF t \in type_data.no_damage_from THEN 0
        ELSE IF t \in type_data.half_damage_from THEN 2
        ELSE IF t \in type_data.double_damage_from THEN 8
        ELSE 4]

Labels == <<"4x", "2x", "1x", "0.5x", "0.25x", "0x">>

(* label_map.get(mult, "1x") *)
LabelOf(mult) ==
    CASE mult = 16 -> "4x"
      [] mult = 8 -> "2x"
      [] mult = 4 -> "1x"
      [] mult = 2 -> "0.5x"
      [] mult = 1 -> "0.25x"
      [] mult = 0 -> "0x"
      [] OTHER -> "1x"

(* The types of ALL_TYPES[1..n] whose label is l, in the order of ALL_TYPES *)
RECURSIVE Bucket(_, _, _)
Bucket(combined, l, n) ==
    IF n = 0 THEN <<>>
    ELSE LET rest == Bucket(combined, l, n - 1) IN
         IF LabelOf(combined[ALL_TYPES[n]]) = l THEN Append(rest, ALL_TYPES[n]) ELSE rest

(* The body of fetch after the two responses arrived: the combined map,     *)
(* the six buckets, and the buckets that are not empty.                    *)
DualMatchups(data1, data2) ==
    LET map1 == BuildMultiplierMap(data1)
        map2 == BuildMultiplierMap(data2)
        combined == [t \in TypeNames |-> QuarterProduct(map1[t], map2[t])]
        grouped == [l \in {Labels[i] : i \in DOMAIN Labels} |->
                       Bucket(combined, l, Len(ALL_TYPES))]
    IN  [l \in {x \in DOMAIN grouped : grouped[x] # <<>>} |-> grouped[l]]

IdleDual ==
    [pc |-> "idle", type_one |-> "", type_two |-> "",
     data1 |-> [double_damage_from |-> {}, half_damage_from |-> {}, no_damage_from |-> {}],
     data2 |-> [double_damage_from |-> {}, half_damage_from |-> {}, no_damage_from |-> {}],
     matchups |-> <<>>]

(* ------------------------------ the state ------------------------------ *)

EmptyDict == [k \in {} |-> NoVal]

Init ==
    /\ backend \in {"redis", "local"}
    /\ store = EmptyDict
    /\ local = [i \in Instances |-> EmptyDict]
    /\ calls = [c \in Calls |-> IdleCall]
    /\ started = 0
    /\ dual = IdleDual

(* The call ends; its arguments, the retry state of client.get and, when it *)
(* raises, the value in hand die with its frame.                           *)
Finish(call, ret, err) ==
    [call EXCEPT !.pc = "done", !.ttl = 0, !.requests = 0, !.legs = 0,
                 !.ret = ret, !.err = err,
                 !.fetched = IF err = "none" THEN @ ELSE NoVal]

(* ------------------------------ operations ----------------------------- *)

(* A caller enters get_or_fetch(key, fetcher, ttl) on the stand-alone layer *)
Start(c) ==
    /\ calls[c].pc \in {"idle", "done"}
    /\ \E key \in Keys, ttl \in Ttls :
          calls' = [calls EXCEPT ![c] = NewCall("layer", "direct", 0, 0, key, "", ttl)]
    /\ UNCHANGED <<dual, backend, store, local, started>>

(* settings.cache_ttl, a configured number of seconds *)
CacheTtl == MaxTtl

(* list_items / list_moves / list_pokemon up to the call of get_or_fetch    *)
StartList(c) ==
    /\ calls[c].pc \in {"idle", "done"}
    /\ started < MaxListCalls
    /\ \E tool \in ListTools, limit \in Limits, offset \in Offsets :
          LET lim == CapLimit(limit)
              ttl == CacheTtl
          IN
          calls' = [calls EXCEPT ![c] =
                       NewCall(ListInstance(tool), tool, lim, offset,
                               ListKey(tool, lim, offset), ListPath(tool, lim, offset), ttl)]
    /\ started' = started + 1
    /\ UNCHANGED <<dual, backend, store, local>>

(* A tool or resource taking identifiers, up to its call of get_or_fetch *)
StartTool(c) ==
    /\ calls[c].pc \in {"idle", "done"}
    /\ started < MaxToolCalls
    /\ \E tool \in Tools :
         \E ids \in ToolArgs(tool) :
          calls' = [calls EXCEPT ![c] =
                       [NewCall(ToolInstance(tool), tool, 0, 0, ToolKey(tool, ids),
                                ToolPath(tool, ids[1]), CacheTtl)
                        EXCEPT !.ids = ids,
                               !.path2 = IF Len(ids) > 1 THEN ToolPath(tool, ids[2])
                                         ELSE ""]]
    /\ started' = started + 1
    /\ UNCHANGED <<dual, backend, store, local>>

(* The requests one fetch makes: get_dual_type_matchups gathers two.  The   *)
(* two are answered here one after the other; a gathered request that is    *)
(* still retried when the other one fails for good touches nothing.         *)
Legs(tool) == IF tool = "get_dual_type_matchups" THEN 2 ELSE 1

(* A single-flight cache: a miss on a key another call is already fetching  *)
(* waits for that call's result instead of invoking its own fetch           *)
MutInvokeFetch(n, key) ==
    IF \E d \in Calls : calls[d].pc = "request" /\ calls[d].key = key THEN n ELSE n + 1

(* A layer that invokes the fetch function a second time *)
MutFetchTwice(n, key) == n + 2

(* line 17: result = await fetcher(), by every call that missed *)
InvokeFetch(n, key) == n + 1

(* Lines 10-17.  One read of the backing store, then the hit is returned or *)
(* the fetch function is invoked.  The hit test is the truth of the value   *)
(* GET returned (external) or membership of the key (local).               *)
Read(c) ==
    LET call == calls[c]
        ext == backend = "redis"
        cached == IF ext THEN RedisGet(store, call.key)
                  ELSE IF LocalHas(local[call.inst], call.key)
                       THEN local[call.inst][call.key] ELSE NoVal
        held == IF ext
                THEN call.key \in DOMAIN store
                ELSE call.key \in DOMAIN local[call.inst]
        hit == IF ext THEN CacheHit(cached) ELSE LocalHas(local[call.inst], call.key)
        read == [call EXCEPT !.reads = @ + 1,
                             !.present = IF held THEN "yes" ELSE "no",
                             !.seen = IF held
                                      THEN (IF ext THEN store[call.key].val
                                            ELSE local[call.inst][call.key])
                                      ELSE NoVal,
                             !.first = IF held
                                       THEN (IF ext THEN store[call.key].orig
                                             ELSE local[call.inst][call.key])
                                       ELSE NoVal]
    IN  /\ call.pc = "read"
        /\ calls' = [calls EXCEPT ![c] =
                        IF hit THEN Finish(read, cached, "none")
                        ELSE [read EXCEPT !.pc = "request",
                                          !.fetches = InvokeFetch(@, call.key),
                                          !.legs = Legs(call.tool)]]
        /\ UNCHANGED <<dual, backend, store, local, started>>

(* Line 11: the GET against the external store fails; the error leaves      *)
(* get_or_fetch at once.                                                   *)
ReadStoreError(c) ==
    /\ calls[c].pc = "read"
    /\ backend = "redis"
    /\ calls' = [calls EXCEPT ![c] = Finish([@ EXCEPT !.reads = @ + 1], NoVal, "StoreError")]
    /\ UNCHANGED <<dual, backend, store, local, started>>

(* A bug that catches the failure and caches an empty result for the key *)
MutFetchErrorLeaves(b, st, d, key) ==
    IF b = "redis"
    THEN <<[k \in DOMAIN st \cup {key} |->
               IF k = key THEN [val |-> Value("bytes", "", key), left |-> 1,
                                orig |-> NoVal]
               ELSE st[k]], d>>
    ELSE <<st, [k \in DOMAIN d \cup {key} |-> IF k = key THEN NoVal ELSE d[k]]>>

(* What a failed fetch leaves in the two backends: the exception leaves     *)
(* get_or_fetch at line 17, before the store step.                         *)
FetchErrorLeaves(b, st, d, key) == <<st, d>>

FetchFailed(c, call, error) ==
    LET left == FetchErrorLeaves(backend, store, local[call.inst], call.key) IN
    /\ calls' = [calls EXCEPT ![c] = Finish([call EXCEPT !.raised = error], NoVal, error)]
    /\ store' = left[1]
    /\ local' = [local EXCEPT ![call.inst] = left[2]]

(* client.get, one attempt that fails (transport error or raise_for_status) *)
(* tenacity retries unless the attempt budget is used up, and then raises   *)
(* RetryError out of the fetch function.                                   *)
AttemptFail(c) ==
    LET call == calls[c]
        n == call.requests + 1
    IN  /\ call.pc = "request"
        /\ \E kind \in FailKinds :
              LET tried == [call EXCEPT !.requests = n] IN
              IF RetryOn(kind) /\ ~StopAfterAttempt(n)
              THEN /\ calls' = [calls EXCEPT ![c] = tried]
                   /\ UNCHANGED <<store, local>>
              ELSE FetchFailed(c, tried, IF RetryOn(kind) THEN "RetryError" ELSE kind)
        /\ UNCHANGED <<dual, backend, started>>

(* The request succeeds but the fetch function raises while it reshapes     *)
(* the body (an index into a structure the payload does not have).         *)
FetchRaise(c) ==
    LET call == calls[c] IN
    /\ call.pc = "request"
    /\ FetchFailed(c, [call EXCEPT !.requests = @ + 1], "KeyError")
    /\ UNCHANGED <<dual, backend, started>>

(* A bug that returns what the store holds instead of the fetched object *)
MutMissReturn(result, stored) == stored

(* line 24: return result *)
MissReturn(result, stored) == result

(* A bug that writes the process-local map whatever the backend *)
MutLocalAfterMiss(b, d, key, v) == LocalSet(d, key, v)

(* lines 19-22, local branch: self._local[key] = result *)
LocalAfterMiss(b, d, key, v) == IF b = "redis" THEN d ELSE LocalSet(d, key, v)

(* The request succeeds and the fetch function returns its value.  With the *)
(* local backend the store step and the return follow without suspension;   *)
(* with the external one the call awaits SETEX.                            *)
AttemptOk(c) ==
    LET call == calls[c] IN
    /\ call.pc = "request"
    /\ IF call.legs > 1
       THEN /\ calls' = [calls EXCEPT ![c] = [call EXCEPT !.requests = 0, !.legs = @ - 1]]
            /\ local' = local
       ELSE \E v \in FetchResults(call) :
              LET got == [call EXCEPT !.requests = 0, !.legs = 0, !.fetched = v] IN
              /\ calls' = [calls EXCEPT ![c] =
                              IF backend = "redis" THEN [got EXCEPT !.pc = "write"]
                              ELSE Finish([got EXCEPT !.wrote = TRUE],
                                          MissReturn(v, v), "none")]
              /\ local' = [local EXCEPT ![call.inst] =
                               LocalAfterMiss(backend, @, call.key, v)]
    /\ UNCHANGED <<dual, backend, store, started>>

(* line 20: await self.redis.setex(key, ttl, result), then line 24.  A      *)
(* value the client cannot encode raises DataError before anything is sent. *)
Write(c) ==
    LET call == calls[c] IN
    /\ call.pc = "write"
    /\ IF CanEncode(call.fetched)
       THEN /\ store' = SetEx(store, call.key, call.ttl, call.fetched)
            /\ calls' = [calls EXCEPT ![c] =
                            Finish([call EXCEPT !.wrote = TRUE],
                                   MissReturn(call.fetched, store'[call.key].val), "none")]
       ELSE /\ store' = store
            /\ calls' = [calls EXCEPT ![c] = Finish(call, NoVal, "DataError")]
    /\ local' = [local EXCEPT ![call.inst] =
                     LocalAfterMiss(backend, @, call.key, call.fetched)]
    /\ UNCHANGED <<dual, backend, started>>

(* line 20: the SETEX fails at the store *)
WriteStoreError(c) ==
    /\ calls[c].pc = "write"
    /\ calls' = [calls EXCEPT ![c] = Finish(@, NoVal, "StoreError")]
    /\ UNCHANGED <<dual, backend, store, local, started>>

(* A second passes: the external store ages its entries; nothing in the     *)
(* process reacts to time.                                                 *)
Tick ==
    /\ store' = Expire(store)
    /\ UNCHANGED <<dual, backend, local, calls, started>>

Layer(c) ==
    \/ Read(c)
    \/ ReadStoreError(c)
    \/ AttemptFail(c)
    \/ FetchRaise(c)
    \/ AttemptOk(c)
    \/ Write(c)
    \/ WriteStoreError(c)

Next ==
    \/ \E c \in Calls : Start(c)
    \/ \E c \in Calls : Layer(c)
    \/ Tick

Spec == Init /\ [][Next]_vars

(* fetch of get_dual_type_matchups: the two /type responses are gathered    *)
(* (one and the same response when the two names are the same) and the      *)
(* matchups computed from them.                                            *)
DualFetch ==
    /\ dual.pc = "idle"
    /\ \E t1 \in TypeNames, t2 \in TypeNames, d1 \in TypeData :
         \E d2 \in (IF t1 = t2 THEN {d1} ELSE TypeData) :
            dual' = [pc |-> "done", type_one |-> t1, type_two |-> t2,
                     data1 |-> d1, data2 |-> d2, matchups |-> DualMatchups(d1, d2)]
    /\ UNCHANGED <<backend, store, local, calls, started>>

(* return {"types": [type_one, type_two], "matchups": result} *)
DualReturn ==
    /\ dual.pc = "done"
    /\ dual' = IdleDual
    /\ UNCHANGED <<backend, store, local, calls, started>>

NextTypes ==
    \/ DualFetch
    \/ DualReturn

SpecTypes == Init /\ [][NextTypes]_vars

NextTools ==
    \/ \E c \in Calls : StartTool(c)
    \/ \E c \in Calls : Layer(c)
    \/ Tick

SpecTools == Init /\ [][NextTools]_vars

NextList ==
    \/ \E c \in Calls : StartList(c)
    \/ \E c \in Calls : Layer(c)
    \/ Tick

SpecList == Init /\ [][NextList]_vars

(* ------------------------------- claims -------------------------------- *)

Held(call) ==
    IF backend = "redis" THEN call.key \in DOMAIN store
    ELSE call.key \in DOMAIN local[call.inst]

(* C1: a call that read its key absent from the backing store has invoked   *)
(* the fetch function exactly once, and when it returns, it returns the     *)
(* value that fetch produced.                                              *)
C1_MissFetchesOnce ==
    \A c \in Calls :
        calls[c].present = "no" =>
            /\ calls[c].fetches = 1
            /\ (calls[c].pc = "done" /\ calls[c].err = "none") =>
                   (calls[c].fetched # NoVal /\ calls[c].ret = calls[c].fetched)

C1_Witness ==
    \E c \in Calls :
        /\ calls[c].present = "no" /\ calls[c].pc = "done"
        /\ calls[c].err = "none" /\ calls[c].ret.shape = "str"
        /\ backend = "redis"

(* C2: a call that read its key present in the backing store, holding V,    *)
(* whatever V is, does not invoke the fetch function and returns V.         *)
C2_HitWhateverTheContent ==
    \A c \in Calls :
        calls[c].present = "yes" =>
            /\ calls[c].fetches = 0
            /\ calls[c].pc = "done" /\ calls[c].err = "none"
            /\ calls[c].ret = calls[c].seen

(* C3: when the fetch function fails, the call ends with that failure and   *)
(* has written nothing, the step leaves both backends as they were, and a   *)
(* later call that reads the key still absent invokes fetch again.          *)
C3_FailedFetchCachesNothing ==
    /\ [](\A c \in Calls :
            calls[c].raised # "none" =>
                /\ calls[c].pc = "done" /\ calls[c].err = calls[c].raised
                /\ ~calls[c].wrote /\ calls[c].ret = NoVal)
    /\ [][\A c \in Calls :
            (calls[c].raised = "none" /\ calls'[c].raised # "none") =>
                (store' = store /\ local' = local)]_vars
    /\ [][\A c, d \in Calls :
            (/\ calls[c].raised # "none" /\ calls'[c] = calls[c]
             /\ calls[d].pc = "read" /\ calls'[d].pc # "read"
             /\ calls[d].key = calls[c].key /\ calls[d].inst = calls[c].inst
             /\ ~Held(calls[d]) /\ calls'[d].err # "StoreError") =>
                calls'[d].fetches = 1]_vars

C3_Witness ==
    \E c \in Calls :
        calls[c].raised = "RetryError" /\ calls[c].present = "no" /\ ~Held(calls[c])

(* C4: one client.get makes at most 3 requests: a failed attempt of either  *)
(* kind is retried while fewer than 3 were made, the third attempt may      *)
(* still succeed, and the terminal RetryError comes exactly when the third  *)
(* attempt fails; no fourth request is issued.                             *)
C4_ThreeAttempts ==
    /\ [](\A c \in Calls :
            /\ calls[c].requests < MaxAttempts
            /\ calls[c].err \notin FailKinds
            /\ calls[c].pc = "request" => ENABLED AttemptOk(c))
    /\ [][\A c \in Calls :
            /\ calls'[c].requests > calls[c].requests =>
                   (/\ calls'[c].requests = calls[c].requests + 1
                    /\ calls'[c].pc = "request" /\ calls'[c].raised = "none")
            /\ (calls[c].raised = "none" /\ calls'[c].raised = "RetryError") =>
                   calls[c].requests = MaxAttempts - 1
            /\ (calls[c].pc = "request" /\ calls'[c].pc = "request"
                    /\ calls'[c] # calls[c]) =>
                   calls'[c].requests = calls[c].requests + 1]_vars

C4_Witness ==
    \E c, d \in Calls :
        /\ calls[c].err = "RetryError"
        /\ calls[d].pc = "request" /\ calls[d].requests = MaxAttempts - 1

(* C5: with the external backend an entry never outlives the ttl it was     *)
(* written with, and until its expiry every call that reads the key         *)
(* present is a hit that does not invoke fetch.                            *)
C5_HitUntilExpiry ==
    backend = "redis" =>
        /\ \A k \in DOMAIN store : store[k].left \in 1..MaxTtl
        /\ \A c \in Calls :
              calls[c].present = "yes" => (calls[c].fetches = 0 /\ calls[c].pc = "done")

(* C6: with the local backend a stored key is never removed, the passing of *)
(* time changes nothing, an entry changes only when a call that missed      *)
(* stores its result, and every call that reads the key present returns     *)
(* the stored value without invoking fetch, whatever its ttl argument.      *)
C6_LocalNeverExpires ==
    /\ [](backend = "local" =>
            \A c \in Calls :
                calls[c].present = "yes" =>
                    /\ calls[c].fetches = 0
                    /\ calls[c].pc = "done" /\ calls[c].err = "none"
                    /\ calls[c].ret = calls[c].seen)
    /\ [][backend = "local" =>
            \A i \in Instances : \A k \in DOMAIN local[i] :
                /\ k \in DOMAIN local'[i]
                /\ local'[i][k] # local[i][k] =>
                       \E c \in Calls :
                           /\ calls[c].pc = "request" /\ calls[c].present = "no"
                           /\ calls[c].key = k /\ calls[c].inst = i
                           /\ calls'[c].wrote]_vars
    /\ [][store' = Expire(store) /\ calls' = calls => local' = local]_vars

C6_Witness ==
    /\ backend = "local"
    /\ \E c \in Calls :
          /\ calls[c].present = "yes" /\ calls[c].pc = "done"
          /\ calls[c].fetches = 0 /\ calls[c].ret.body = ""
          /\ calls[c].ret.shape = "str"

(* C7: a call returns only a value fetched for its own key, every entry     *)
(* holds a value fetched for its key, and the step in which a call writes   *)
(* its key leaves the entry of every other key as it was.                   *)
C7_KeyIsolation ==
    /\ [](\A c \in Calls :
            (calls[c].pc = "done" /\ calls[c].err = "none") =>
                calls[c].ret.src = calls[c].key)
    /\ [](\A k \in DOMAIN store : store[k].val.src = k)
    /\ [](\A i \in Instances : \A k \in DOMAIN local[i] : local[i][k].src = k)
    /\ [][\A c \in Calls :
            (~calls[c].wrote /\ calls'[c].wrote) =>
                /\ \A k \in (DOMAIN store \cup DOMAIN store') \ {calls[c].key} :
                       k \in DOMAIN store /\ k \in DOMAIN store' /\ store'[k] = store[k]
                /\ \A i \in Instances :
                     \A k \in (DOMAIN local[i] \cup DOMAIN local'[i]) \ {calls[c].key} :
                       /\ k \in DOMAIN local[i] /\ k \in DOMAIN local'[i]
                       /\ local'[i][k] = local[i][k]]_vars

C7_Witness ==
    /\ Keys \subseteq DOMAIN store
    /\ \E c \in Calls :
          /\ calls[c].pc = "done" /\ calls[c].present = "yes"
          /\ calls[c].key = "b" /\ calls[c].ret.src = "b"

(* C8: with the external backend the process-local map is never written,    *)
(* and a failed store operation ends the call at once with the store's      *)
(* error: nothing was written, and after a failed read fetch was not        *)
(* invoked and no request was made.                                        *)
C8_StoreErrorPropagates ==
    /\ [](backend = "redis" =>
            /\ \A i \in Instances : local[i] = EmptyDict
            /\ \A c \in Calls :
                  calls[c].err = "StoreError" =>
                      /\ calls[c].pc = "done" /\ ~calls[c].wrote
                      /\ calls[c].ret = NoVal
                      /\ calls[c].present = "unread" =>
                             (calls[c].fetches = 0 /\ calls[c].requests = 0))
    /\ [][\A c \in Calls :
            (calls[c].err = "none" /\ calls'[c].err = "StoreError") =>
                /\ calls[c].pc \in {"read", "write"}
                /\ store' = store /\ local' = local
                /\ calls'[c].fetches = calls[c].fetches]_vars

C8_Witness ==
    \E c, d \in Calls :
        /\ calls[c].err = "StoreError" /\ calls[c].present = "unread"
        /\ calls[d].err = "StoreError" /\ calls[d].fetches = 1

(* C9: a call that missed, whose fetch returned a value and whose store     *)
(* was reachable, has stored the value and returned it, whatever the        *)
(* value's shape.                                                          *)
C9_AnyShapeIsStored ==
    \A c \in Calls :
        (/\ calls[c].pc = "done" /\ calls[c].fetches = 1
         /\ calls[c].raised = "none" /\ calls[c].err # "StoreError") =>
            /\ calls[c].err = "none" /\ calls[c].wrote
            /\ calls[c].ret = calls[c].fetched /\ calls[c].ret # NoVal

(* C10: two listing calls of one tool whose (capped limit, offset) differ   *)
(* hold different keys; the limit in the key, in the request path and in    *)
(* the payload is the capped one, at most 100; and a listing call that      *)
(* returns, returns the page of its own path, as does every entry of its    *)
(* key.                                                                    *)
ListCall(call) == call.pc # "idle" /\ call.tool \in ListTools

C10_PagesDoNotCollide ==
    /\ \A c, d \in Calls :
          (/\ ListCall(calls[c]) /\ ListCall(calls[d])
           /\ <<calls[c].tool, calls[c].limit, calls[c].offset>>
                  # <<calls[d].tool, calls[d].limit, calls[d].offset>>) =>
              calls[c].key # calls[d].key
    /\ \A c \in Calls :
          ListCall(calls[c]) =>
              /\ calls[c].limit <= PageCap
              /\ calls[c].key = ListKey(calls[c].tool, calls[c].limit, calls[c].offset)
              /\ calls[c].path = ListPath(calls[c].tool, calls[c].limit, calls[c].offset)
              /\ ListPayload(calls[c]).limit = calls[c].limit
              /\ (calls[c].pc = "done" /\ calls[c].err = "none") =>
                     ListPayload(calls[c]).items.body = calls[c].path
    /\ \A i \in Instances : \A k \in DOMAIN local[i] :
          \E t \in ListTools, l \in Limits, o \in Offsets :
              /\ i = ListInstance(t) /\ k = ListKey(t, CapLimit(l), o)
              /\ local[i][k].body = ListPath(t, CapLimit(l), o)

C10_Witness ==
    /\ backend = "local"
    /\ {ListKey("list_items", 20, 0), ListKey("list_items", 20, 20)}
          \subseteq DOMAIN local["items"]
    /\ \E c \in Calls :
          /\ calls[c].pc = "done" /\ calls[c].present = "yes"
          /\ calls[c].tool = "list_items" /\ calls[c].offset = 0 /\ calls[c].limit = 20
          /\ ListPayload(calls[c]).items.body = "/item?limit=20&offset=0"

(* C11: for every attacking type t the matchups hold t in exactly one       *)
(* bucket, the one labelled with the product of the multipliers of the two  *)
(* defending types (2 under double_damage_from, 0.5 under half_damage_from, *)
(* 0 under no_damage_from, 1 otherwise), and hold no empty bucket.          *)
ClaimedMultiplier(type_data, t) ==
    CASE t \in type_data.double_damage_from -> 8
      [] t \in type_data.half_damage_from -> 2
      [] t \in type_data.no_damage_from -> 0
      [] OTHER -> 4

ClaimedLabel(product) ==
    CASE product = 16 -> "4x"
      [] product = 8 -> "2x"
      [] product = 4 -> "1x"
      [] product = 2 -> "0.5x"
      [] product = 1 -> "0.25x"
      [] product = 0 -> "0x"

InBucket(m, l, t) == l \in DOMAIN m /\ \E i \in DOMAIN m[l] : m[l][i] = t

C11_DualTypeBuckets ==
    dual.pc = "done" =>
        /\ \A l \in DOMAIN dual.matchups :
              /\ dual.matchups[l] # <<>>
              /\ \A i, j \in DOMAIN dual.matchups[l] :
                    dual.matchups[l][i] = dual.matchups[l][j] => i = j
        /\ \A t \in TypeNames :
              LET product == (ClaimedMultiplier(dual.data1, t)
                                * ClaimedMultiplier(dual.data2, t)) \div 4
              IN  \A l \in {Labels[i] : i \in DOMAIN Labels} :
                      InBucket(dual.matchups, l, t) <=> l = ClaimedLabel(product)

(* The example of the specification: A = normal, B = fire, C = water        *)
C11_Witness ==
    /\ dual.pc = "done"
    /\ dual.type_one = "normal" /\ dual.type_two = "fire"
    /\ dual.data1.double_damage_from = {"fire"}
    /\ dual.data1.half_damage_from = {} /\ dual.data1.no_damage_from = {}
    /\ dual.data2.half_damage_from = {"water"}
    /\ dual.data2.double_damage_from = {} /\ dual.data2.no_damage_from = {}
    /\ InBucket(dual.matchups, "0.5x", "water")
    /\ DOMAIN dual.matchups = {"2x", "1x", "0.5x"}

(* A call made through one of the tools that take identifiers *)
ToolCall(call) == call.tool \in Tools /\ call.pc # "idle"

(* The parameters after the caller's normalization *)
Normalized(ids) == [i \in DOMAIN ids |-> Lower(ids[i])]

(* C12: key construction is injective over (operation, normalized        *)
(* parameters): two invocations that differ in the operation or in a      *)
(* normalized parameter have different cache keys, the two-parameter      *)
(* get_dual_type_matchups included.                                       *)
C12_KeysInjective ==
    \A c, d \in Calls :
        (/\ ToolCall(calls[c])
         /\ ToolCall(calls[d])
         /\ <<calls[c].tool, Normalized(calls[c].ids)>>
                # <<calls[d].tool, Normalized(calls[d].ids)>>)
        => calls[c].key # calls[d].key

(* Two invocations of one caller whose identifiers differ at most in case *)
SameLookup(a, b) ==
    /\ ToolCall(a) /\ ToolCall(b)
    /\ a.tool = b.tool
    /\ Normalized(a.ids) = Normalized(b.ids)

(* C13: two invocations of the same caller whose identifiers differ only   *)
(* in letter case use the same key and the same request paths, and once    *)
(* the first has succeeded and its entry is held, the second, reading the  *)
(* store, is a hit that returns without invoking its fetch.                *)
C13_CaseInsensitiveLookup ==
    /\ [](\A c, d \in Calls :
            SameLookup(calls[c], calls[d]) =>
                /\ calls[c].key = calls[d].key
                /\ calls[c].path = calls[d].path
                /\ calls[c].path2 = calls[d].path2)
    /\ [][\A c, d \in Calls :
            (/\ c # d
             /\ SameLookup(calls[c], calls[d])
             /\ calls[d].pc = "done" /\ calls[d].wrote /\ calls[d].err = "none"
             /\ Held(calls[d])
             /\ calls[c].pc = "read" /\ calls'[c].pc # "read"
             /\ calls'[c].err # "StoreError")
            => /\ calls'[c].pc = "done" /\ calls'[c].err = "none"
               /\ calls'[c].present = "yes"
               /\ calls'[c].fetches = 0 /\ calls'[c].requests = 0
               /\ ~calls'[c].wrote]_vars

C13_Witness ==
    \E c, d \in Calls :
        /\ calls[d].tool = "generation_resource" /\ calls[d].ids = << <<"a">> >>
        /\ calls[d].pc = "done" /\ calls[d].wrote /\ calls[d].err = "none"
        /\ calls[c].tool = "generation_resource" /\ calls[c].ids = << <<"A">> >>
        /\ calls[c].pc = "done" /\ calls[c].err = "none"
        /\ calls[c].present = "yes" /\ calls[c].fetches = 0
        /\ calls[c].key = "resource:generation:a"
        /\ backend = "redis"

(* C14: a call reads the store, then fetches, then writes: one read, made  *)
(* before anything else; at most one fetch invocation, made in the step     *)
(* the read completes as a miss; at most one write, made only by a call     *)
(* whose fetch has returned a value.  A call that returns from its read     *)
(* (a hit) has fetched nothing and written nothing, and the backing store   *)
(* changes only where a call writes (or an entry expires).                  *)
C14_ReadFetchWrite ==
    /\ [](\A c \in Calls :
            /\ calls[c].reads <= 1 /\ calls[c].fetches <= 1
            /\ calls[c].pc = "read" =>
                   calls[c].reads = 0 /\ calls[c].fetches = 0 /\ ~calls[c].wrote
            /\ calls[c].pc \in {"request", "write", "done"} => calls[c].reads = 1
            /\ calls[c].pc \in {"request", "write"} =>
                   calls[c].fetches = 1 /\ ~calls[c].wrote
            /\ calls[c].pc = "write" => calls[c].fetched # NoVal
            /\ calls[c].wrote =>
                   /\ calls[c].pc = "done" /\ calls[c].fetches = 1
                   /\ calls[c].fetched # NoVal /\ calls[c].err = "none")
    /\ [][\A c \in Calls :
            (calls[c].pc = "read" /\ calls'[c].pc = "done" /\ calls'[c].err = "none")
            => /\ calls'[c].fetches = 0 /\ ~calls'[c].wrote
               /\ store' = store /\ local' = local]_vars
    /\ [][(local' # local \/ (store' # store /\ store' # Expire(store)))
            => \E c \in Calls :
                  /\ calls[c].pc = (IF backend = "redis" THEN "write" ELSE "request")
                  /\ calls[c].fetches = 1 /\ ~calls[c].wrote
                  /\ calls'[c].wrote /\ calls'[c].fetched # NoVal
                  /\ calls'[c].pc = "done"]_vars

C14_Witness ==
    /\ backend = "redis"
    /\ \E c, d \in Calls :
          /\ calls[c].pc = "done" /\ calls[c].wrote
          /\ calls[c].reads = 1 /\ calls[c].fetches = 1
          /\ calls[d].pc = "done" /\ calls[d].err = "none"
          /\ calls[d].reads = 1 /\ calls[d].fetches = 0 /\ ~calls[d].wrote
          /\ calls[d].key = calls[c].key

(* A call in flight after a miss: its fetch is running or its write pending *)
InFlight(call) == call.pc \in {"request", "write"}

(* C15: no coalescing.  A call that read its key absent has invoked its    *)
(* own fetch, whatever the other calls are doing; in particular a call     *)
(* that reads an absent key while another call is in flight on that key    *)
(* invokes its own fetch in that step and leaves the other call as it is.  *)
(* So the fetch invocations are as many as the calls that missed, on the   *)
(* local backend as on the external one.                                   *)
C15_NoCoalescing ==
    /\ [](\A c \in Calls :
            /\ calls[c].present = "no" => calls[c].fetches = 1
            /\ InFlight(calls[c]) => calls[c].fetches = 1
            /\ calls[c].fetches > 0 => calls[c].present # "unread")
    /\ [][\A c, d \in Calls :
            (/\ c # d
             /\ InFlight(calls[d])
             /\ calls[d].key = calls[c].key /\ calls[d].inst = calls[c].inst
             /\ ~Held(calls[c])
             /\ calls[c].pc = "read" /\ calls'[c].pc # "read"
             /\ calls'[c].err # "StoreError")
            => /\ calls'[c].pc = "request" /\ calls'[c].fetches = 1
               /\ calls'[c].present = "no"
               /\ calls'[d] = calls[d]]_vars

C15_Witness ==
    /\ backend = "local"
    /\ calls["c1"].pc = "request" /\ calls["c2"].pc = "request"
    /\ calls["c1"].key = calls["c2"].key
    /\ calls["c1"].present = "no" /\ calls["c2"].present = "no"
    /\ calls["c1"].fetches = 1 /\ calls["c2"].fetches = 1
    /\ calls["c1"].key \notin DOMAIN local["layer"]

(* The step in which call c writes its key *)
Writes(c) == ~calls[c].wrote /\ calls'[c].wrote

(* C16: the backing store maps a key to one value (it is a mapping).  The  *)
(* step in which a call writes leaves under its key the value that call    *)
(* fetched, whatever was there, with (external backend) the expiry of that *)
(* call's ttl, and the call returns its own fetched value; a stored value  *)
(* changes in no other step.  So after concurrent misses on one key the    *)
(* stored value is that of the call that wrote last.                       *)
C16_LastWriterWins ==
    /\ [](\A c \in Calls :
            (calls[c].pc = "done" /\ calls[c].err = "none" /\ calls[c].fetches = 1)
            => calls[c].ret = calls[c].fetched)
    /\ [][\A c \in Calls :
            Writes(c) =>
                /\ calls'[c].ret = calls'[c].fetched
                /\ backend = "redis" =>
                       /\ calls[c].key \in DOMAIN store'
                       /\ store'[calls[c].key] =
                              [val |-> Encode(calls'[c].fetched), left |-> calls[c].ttl,
                               orig |-> calls'[c].fetched]
                /\ backend = "local" =>
                       /\ calls[c].key \in DOMAIN local'[calls[c].inst]
                       /\ local'[calls[c].inst][calls[c].key] = calls'[c].fetched]_vars
    /\ [][\A k \in DOMAIN store \cap DOMAIN store' :
            (store'[k].val # store[k].val \/ store'[k].left > store[k].left)
            => \E c \in Calls : Writes(c) /\ calls[c].key = k]_vars
    /\ [][\A i \in Instances : \A k \in DOMAIN local[i] \cap DOMAIN local'[i] :
            local'[i][k] # local[i][k]
            => \E c \in Calls : Writes(c) /\ calls[c].key = k /\ calls[c].inst = i]_vars

C16_Witness ==
    /\ backend = "redis"
    /\ calls["c1"].pc = "done" /\ calls["c1"].wrote /\ calls["c1"].present = "no"
    /\ calls["c2"].pc = "done" /\ calls["c2"].wrote /\ calls["c2"].present = "no"
    /\ calls["c1"].key = "a" /\ calls["c2"].key = "a"
    /\ calls["c1"].fetched.body = "" /\ calls["c2"].fetched.body = "p"
    /\ "a" \in DOMAIN store
    /\ store["a"].orig = calls["c2"].fetched
    /\ calls["c1"].ret = calls["c1"].fetched

(* A call that returned the entry it read: a hit *)
ReturnedHit(call) ==
    /\ call.pc = "done" /\ call.err = "none"
    /\ call.present = "yes" /\ call.fetches = 0

(* C17: on a hit, get_or_fetch returns a value identical in representation *)
(* and content to the one the call that populated the key returned, and a  *)
(* caller that post-processes the result gives the same output as on the   *)
(* populating read.                                                        *)
C17_HitMissTransparent ==
    \A c \in Calls :
        (ToolCall(calls[c]) /\ ReturnedHit(calls[c])) =>
            /\ calls[c].ret = calls[c].first
            /\ ToolReturn(calls[c].tool, calls[c].ids, calls[c].ret)
                   = ToolReturn(calls[c].tool, calls[c].ids, calls[c].first)

============================================================================
